---- MODULE Spec2Model ----
(***************************************************************************)
(* A model of seisbench_picking: the calendar/task enumerator (utils.py),  *)
(* the waveform resolver (waveforms.py), the picker registry               *)
(* (picking_interfaces.py), the parallel picking engine and the result     *)
(* aggregator (picking.py) and the entry point (main.py).                  *)
(*                                                                         *)
(* Strings that the code takes apart (station identifiers, file names) are *)
(* sequences of tokens, with the separators "." and "_" as tokens of their *)
(* own, so that split, stem and the file name format are computed.  Time   *)
(* is counted in microseconds since midnight of January 1st of FirstYear,  *)
(* on a calendar scaled down to TicksPerDay microseconds a day and         *)
(* YearDays days a year (one more in a leap year).                         *)
(***************************************************************************)
EXTENDS Integers, Sequences, FiniteSets, TLC

(***************************************************************************)
(* Bounds of the model                                                     *)
(***************************************************************************)
TicksPerDay == 3
YearDays == 2
FirstYear == 2019
MaxStations == 2
MaxUnits == 4
RunTicks == 4
MaxCalls == 2

(***************************************************************************)
(* Sequences and token strings                                             *)
(***************************************************************************)
Range(s) == {s[i] : i \in 1..Len(s)}

RECURSIVE SplitLoop(_, _, _, _)
SplitLoop(s, sep, cur, acc) ==
    IF s = <<>> THEN Append(acc, cur)
    ELSE IF Head(s) = sep THEN SplitLoop(Tail(s), sep, <<>>, Append(acc, cur))
    ELSE SplitLoop(Tail(s), sep, Append(cur, Head(s)), acc)

\* str.split(sep)
Split(s, sep) == SplitLoop(s, sep, <<>>, <<>>)

\* the position of the last token tok of s, 0 if there is none
LastIndexOf(s, tok) ==
    LET I == {i \in 1..Len(s) : s[i] = tok}
    IN IF I = {} THEN 0 ELSE CHOOSE i \in I : \A j \in I : j <= i

\* pathlib.Path(name).stem: the name without its last suffix
Stem(name) ==
    LET k == LastIndexOf(name, ".")
    IN IF k > 1 /\ k < Len(name) THEN SubSeq(name, 1, k - 1) ELSE name

(***************************************************************************)
(* The calendar (datetime, obspy.UTCDateTime)                              *)
(***************************************************************************)
IsLeap(y) == y % 4 = 0 /\ (y % 100 # 0 \/ y % 400 = 0)

DaysInYear(y) == IF IsLeap(y) THEN YearDays + 1 ELSE YearDays

RECURSIVE YearStartDay(_)
YearStartDay(y) == IF y <= FirstYear THEN 0 ELSE YearStartDay(y - 1) + DaysInYear(y - 1)

RECURSIVE YearOfDay(_, _)
YearOfDay(dn, y) == IF dn < YearStartDay(y + 1) THEN y ELSE YearOfDay(dn, y + 1)

DayNumber(t) == t \div TicksPerDay

\* UTCDateTime.year, UTCDateTime.julday
YearOf(t) == YearOfDay(DayNumber(t), FirstYear)
JuldayOf(t) == DayNumber(t) - YearStartDay(YearOf(t)) + 1

\* a date that keeps its time of day
KeepTimeOfDay(t) == t

\* datetime.datetime(year=date.year, month=date.month, day=date.day)
Midnight(t) == DayNumber(t) * TicksPerDay

\* datetime.datetime(year, 1, 1) + datetime.timedelta(days=doy - 1)
DateFromDoy(y, doy) == (YearStartDay(y) + doy - 1) * TicksPerDay

(***************************************************************************)
(* utils.py: the calendar/task enumerator                                  *)
(***************************************************************************)
RECURSIVE DateListLoop(_, _, _)
DateListLoop(date, end_date, dates) ==
    IF date <= end_date
    THEN LET d0 == Midnight(date)
         IN DateListLoop(d0 + TicksPerDay, end_date,
                         Append(dates, <<YearOf(d0), JuldayOf(d0)>>))
    ELSE dates

\* date_list for a loop that runs while the day is before the day of end_date
date_list_before_end(start_date, end_date) ==
    DateListLoop(start_date, Midnight(end_date) - 1, <<>>)

date_list(start_date, end_date) == DateListLoop(start_date, end_date, <<>>)

\* the inner loop: for station, channel_code in zip(stations, channel_codes)
RECURSIVE ZipLoop(_, _, _, _)
ZipLoop(date, stations, channel_codes, acc) ==
    IF stations = <<>> \/ channel_codes = <<>> THEN acc
    ELSE ZipLoop(date, Tail(stations), Tail(channel_codes),
                 Append(acc, <<date[1], date[2], Head(stations), Head(channel_codes)>>))

RECURSIVE DatesLoop(_, _, _, _)
DatesLoop(dates, stations, channel_codes, acc) ==
    IF dates = <<>> THEN acc
    ELSE DatesLoop(Tail(dates), stations, channel_codes,
                   ZipLoop(Head(dates), stations, channel_codes, acc))

\* station_and_dates with the loops exchanged: for each station, every date
station_and_dates_station_major(dates, stations, channel_codes) ==
    [k \in 1..(Len(dates) * Len(stations)) |->
        LET s == ((k - 1) \div Len(dates)) + 1
            d == ((k - 1) % Len(dates)) + 1
        IN <<dates[d][1], dates[d][2], stations[s], channel_codes[s]>>]

station_and_dates(dates, stations, channel_codes) ==
    DatesLoop(dates, stations, channel_codes, <<>>)

(***************************************************************************)
(* waveforms.py: the waveform resolver                                     *)
(***************************************************************************)
\* None, for an optional time
NoTime == 0 - 1

\* start_and_endtime without the "- 1e-6": a full day ends at the next midnight
start_and_endtime_to_midnight(date, starttime, endtime) ==
    LET date_from_doy == DateFromDoy(date[1], date[2])
    IN <<IF starttime # NoTime /\ YearOf(starttime) = date[1] /\ JuldayOf(starttime) = date[2]
         THEN starttime ELSE date_from_doy,
         IF endtime # NoTime /\ YearOf(endtime) = date[1] /\ JuldayOf(endtime) = date[2]
         THEN endtime ELSE date_from_doy + TicksPerDay>>

start_and_endtime(date, starttime, endtime) ==
    LET date_from_doy == DateFromDoy(date[1], date[2])
        starttime_stream ==
            IF starttime # NoTime /\ YearOf(starttime) = date[1]
                                  /\ JuldayOf(starttime) = date[2]
            THEN starttime
            ELSE date_from_doy
        endtime_stream ==
            IF endtime # NoTime /\ YearOf(endtime) = date[1]
                                /\ JuldayOf(endtime) = date[2]
            THEN endtime
            ELSE date_from_doy + TicksPerDay - 1
    IN <<starttime_stream, endtime_stream>>

\* The exception classes a backend call may raise; all derive from Exception.
ExceptionTypes == {"ValueError", "OSError", "TypeError"}

\* except cls: does the clause catch an exception of class exc
Caught(exc, cls) == cls = "Exception" \/ exc = cls

\* A trace of a stream: its channel and its sampling rate.
Trace(id, rate) == [id |-> id, rate |-> rate]

\* What a backend can hold for one unit: nothing, one trace, one channel in
\* two segments (a gap), two channels, one channel at two sampling rates.
Streams ==
    { <<>>,
      <<Trace("Z", "100Hz")>>,
      <<Trace("Z", "100Hz"), Trace("Z", "100Hz")>>,
      <<Trace("Z", "100Hz"), Trace("N", "100Hz")>>,
      <<Trace("Z", "100Hz"), Trace("Z", "200Hz")>> }

\* What a backend call does: it raises exc, or returns the traces.
Returns(traces) == [exc |-> "none", traces |-> traces]
Raises(exc) == [exc |-> exc, traces |-> <<>>]
BackendOutcomes == {Raises(e) : e \in ExceptionTypes} \cup {Returns(s) : s \in Streams}

\* stream.merge(fill_value=0): one trace per channel, gaps filled; obspy raises
\* an Exception for traces of one channel with differing sampling rates.
Merge(traces) ==
    IF \E i, j \in 1..Len(traces) : traces[i].id = traces[j].id /\ traces[i].rate # traces[j].rate
    THEN Raises("Exception")
    ELSE Returns(SelectSeq([i \in 1..Len(traces) |->
                               IF \E j \in 1..(i - 1) : traces[j].id = traces[i].id
                               THEN Trace("", "") ELSE traces[i]],
                           LAMBDA t : t.id # ""))

\* client: what client.get_waveforms does for the unit
get_waveforms_client(client) ==
    IF client.exc # "none"
    THEN IF Caught(client.exc, "ValueError") THEN Returns(<<>>) ELSE Raises(client.exc)
    ELSE Merge(client.traces)

\* sds_is_dir: os.path.isdir(sds_path); read: what obspy.read does for the unit
get_waveforms_sds_path(sds_is_dir, read) ==
    IF ~sds_is_dir THEN Raises("OSError")
    ELSE IF read.exc # "none"
    THEN IF Caught(read.exc, "Exception") THEN Returns(<<>>) ELSE Raises(read.exc)
    ELSE LET merged == Merge(read.traces)
         IN IF merged.exc # "none"
            THEN IF Caught(merged.exc, "Exception") THEN Returns(<<>>) ELSE merged
            ELSE merged

\* Fallback for a resolver that consults the filesystem backend every time
FallbackAlways(stream) == stream.exc = "none"

\* Is the filesystem backend consulted: len(stream) == 0 after the client
Fallback(stream) == stream.exc = "none" /\ Len(stream.traces) = 0

\* get_waveforms: the result (raised exception or stream), whether the
\* filesystem backend was consulted, and the number of warnings emitted.
get_waveforms(sds_is_dir, client, read) ==
    LET first == get_waveforms_client(client)
        second == IF Fallback(first) THEN get_waveforms_sds_path(sds_is_dir, read) ELSE first
    IN [exc |-> second.exc,
        traces |-> second.traces,
        fallback |-> Fallback(first),
        warnings |-> IF second.exc = "none" /\ Len(second.traces) = 0 THEN 1 ELSE 0]

(***************************************************************************)
(* picking_interfaces.py: the picker registry                              *)
(***************************************************************************)
\* str.lower() on the picker names of the model
Lower(name) ==
    CASE name = "PhaseNet" -> "phasenet"
      [] name = "EQT" -> "eqt"
      [] name = "GPD" -> "gpd"
      [] OTHER -> name

\* get_picker that falls back to PhaseNet for a type it does not know
get_picker_with_default(type) ==
    IF Lower(type) = "eqt" THEN [exc |-> "none", picker |-> "EQTransformer"]
    ELSE IF Lower(type) = "gpd" THEN [exc |-> "none", picker |-> "GPD"]
    ELSE [exc |-> "none", picker |-> "PhaseNet"]

\* the picker loaded (its architecture), or the exception raised
get_picker(type) ==
    IF Lower(type) = "phasenet" THEN [exc |-> "none", picker |-> "PhaseNet"]
    ELSE IF Lower(type) = "eqt" THEN [exc |-> "none", picker |-> "EQTransformer"]
    ELSE IF Lower(type) = "gpd" THEN [exc |-> "none", picker |-> "GPD"]
    ELSE [exc |-> "ValueError", picker |-> "none"]

(***************************************************************************)
(* Values, data frames and csv files (pandas)                              *)
(***************************************************************************)
\* A value of a data frame: its type and its text, str(value).
Str(text) == [t |-> "str", v |-> text]
FloatVal(tenths) == [t |-> "num", v |-> "0." \o ToString(tenths)]
NaN == [t |-> "nan", v |-> ""]

\* str(UTCDateTime): year, day of the year and microsecond of the day
TimeText(t) ==
    ToString(YearOf(t)) \o "-" \o ToString(JuldayOf(t)) \o "T" \o ToString(t - Midnight(t)) \o "Z"
Time(t) == [t |-> "time", v |-> TimeText(t)]

\* The texts read_csv takes for numbers.
IsNumeric(text) == \E n \in 0..9 : text = ToString(n) \/ text = "0." \o ToString(n)

RECURSIVE Join(_)
Join(tokens) == IF tokens = <<>> THEN "" ELSE Head(tokens) \o Join(Tail(tokens))

PickColumns == <<"id", "start_time", "peak_time", "end_time", "peak_value", "phase">>

\* pd.DataFrame(dict of lists): the columns in the order of the dict
DataFrame(columns, data) == [columns |-> columns, data |-> data]

EmptyPicks == [c \in Range(PickColumns) |-> <<>>]

NRows(df) == IF df.columns = <<>> THEN 0 ELSE Len(df.data[df.columns[1]])

\* A csv file: the header line and the lines, each a sequence of cell texts.
\* df.to_csv(path) writes the index (0, 1, ...) as a first column whose header is empty.
to_csv(df) ==
    [header |-> <<"">> \o df.columns,
     lines |-> [i \in 1..NRows(df) |->
                   <<ToString(i - 1)>> \o [k \in 1..Len(df.columns) |-> df.data[df.columns[k]][i].v]]]

\* The values read_csv makes of the texts of one column: an empty cell is NaN,
\* a cell is a number if the column holds nothing but numbers, else a string.
ParseColumn(texts) ==
    LET numeric == \A i \in 1..Len(texts) : texts[i] = "" \/ IsNumeric(texts[i])
    IN [i \in 1..Len(texts) |->
           IF texts[i] = "" THEN NaN
           ELSE IF numeric THEN [t |-> "num", v |-> texts[i]]
           ELSE Str(texts[i])]

\* pd.read_csv(path): a column with an empty header is named "Unnamed: <position>"
read_csv(file) ==
    LET cols == [k \in 1..Len(file.header) |->
                    IF file.header[k] = "" THEN "Unnamed: " \o ToString(k - 1) ELSE file.header[k]]
    IN DataFrame(cols,
                 [c \in Range(cols) |->
                     LET k == CHOOSE k \in 1..Len(cols) : cols[k] = c
                     IN ParseColumn([i \in 1..Len(file.lines) |-> file.lines[i][k]])])

\* "unnamed" in key.lower(), on the column names of the model
HasUnnamed(key) == \E k \in 0..9 : key = "Unnamed: " \o ToString(k)

(***************************************************************************)
(* picking.py: the per-unit pick operation                                 *)
(***************************************************************************)
\* ParseStationId that takes the first three parts of a longer id
ParseStationIdFirstParts(id) ==
    LET parts == Split(id, ".")
    IN IF Len(parts) >= 3
       THEN [exc |-> "none", network |-> parts[1], station |-> parts[2], location |-> parts[3]]
       ELSE IF Len(parts) = 2
       THEN [exc |-> "none", network |-> parts[1], station |-> parts[2], location |-> <<>>]
       ELSE [exc |-> "ValueError", network |-> <<>>, station |-> <<>>, location |-> <<>>]

\* network, station, location = id.split("."), else network, station = id.split(".")
ParseStationId(id) ==
    LET parts == Split(id, ".")
    IN IF Len(parts) = 3
       THEN [exc |-> "none", network |-> parts[1], station |-> parts[2], location |-> parts[3]]
       ELSE IF Len(parts) = 2
       THEN [exc |-> "none", network |-> parts[1], station |-> parts[2], location |-> <<>>]
       ELSE [exc |-> "ValueError", network |-> <<>>, station |-> <<>>, location |-> <<>>]

\* The archive of the runs: the client backend holds the HH channels of every
\* day, the filesystem backend the BH channels of the first day of a year
\* (with a gap); obspy.read raises when no file matches.
ArchiveClient(channel_code, date) ==
    IF channel_code = "HH" THEN Returns(<<Trace("HHZ", "100Hz")>>)
    ELSE Returns(<<>>)

ArchiveRead(channel_code, date) ==
    IF channel_code = "BH" /\ date[2] = 1
    THEN Returns(<<Trace("BHZ", "100Hz"), Trace("BHZ", "100Hz")>>)
    ELSE Raises("Exception")

\* A deterministic picker: on a stream with data, a P pick at the start of the
\* window and, when the window is longer than a microsecond, an S pick at its end.
Pick(trace_id, time, value, phase) ==
    [trace_id |-> Str(trace_id), start_time |-> Time(time), peak_time |-> Time(time),
     end_time |-> Time(time), peak_value |-> FloatVal(value), phase |-> Str(phase)]

Classify(trace_id, traces, window) ==
    IF traces = <<>> THEN <<>>
    ELSE LET value == IF traces[1].id = "HHZ" THEN 9 ELSE 7
         IN <<Pick(trace_id, window[1], value, "P")>>
            \o (IF window[2] > window[1] THEN <<Pick(trace_id, window[2], value - 1, "S")>> ELSE <<>>)

\* export_picks: the data frame of the pick list, written with to_csv
export_picks(picklist) ==
    to_csv(DataFrame(PickColumns,
        [c \in Range(PickColumns) |->
            [i \in 1..Len(picklist) |->
                CASE c = "id" -> picklist[i].trace_id
                  [] c = "start_time" -> picklist[i].start_time
                  [] c = "peak_time" -> picklist[i].peak_time
                  [] c = "end_time" -> picklist[i].end_time
                  [] c = "peak_value" -> picklist[i].peak_value
                  [] c = "phase" -> picklist[i].phase]]))

\* f"{date_station[2]}_{date_station[0]}.{date_station[1]}.pick"
PickFilename(date_station) ==
    date_station[3] \o <<"_", ToString(date_station[1]), ".", ToString(date_station[2]), ".", "pick">>

\* What a call of _pick_waveform did: the exception it raised, or the file it
\* wrote; the parts of the id; whether it called get_waveforms; whether it
\* called picker.classify ("none") and how the call ended.
UnitResult(exc, id, fetched, classified, name, file, warnings) ==
    [exc |-> exc, network |-> id.network, station |-> id.station, location |-> id.location,
     fetched |-> fetched, classified |-> classified, name |-> name, file |-> file,
     warnings |-> warnings]

\* pick_waveform for a unit that goes on without picks when picker.classify raises
pick_waveform_no_picks_on_failure(date_station, sds_is_dir, starttime, endtime, classify_raises) ==
    LET id == ParseStationId(date_station[3])
        date == <<date_station[1], date_station[2]>>
        waveform == get_waveforms(sds_is_dir, ArchiveClient(date_station[4], date),
                                  ArchiveRead(date_station[4], date))
        none == [header |-> <<>>, lines |-> <<>>]
    IN IF id.exc # "none"
       THEN UnitResult(id.exc, id, FALSE, "none", <<>>, none, 0)
       ELSE IF waveform.exc # "none"
       THEN UnitResult(waveform.exc, id, TRUE, "none", <<>>, none, 0)
       ELSE UnitResult("none", id, TRUE, IF classify_raises THEN "raised" ELSE "returned",
                       PickFilename(date_station), export_picks(<<>>), waveform.warnings)

\* _pick_waveform for one unit.  classify_raises: picker.classify raises for
\* this unit.
pick_waveform(date_station, sds_is_dir, starttime, endtime, classify_raises) ==
    LET id == ParseStationId(date_station[3])
        date == <<date_station[1], date_station[2]>>
        waveform == get_waveforms(sds_is_dir, ArchiveClient(date_station[4], date),
                                  ArchiveRead(date_station[4], date))
        window == start_and_endtime(date, starttime, endtime)
        trace_id == Join(id.network \o <<".">> \o id.station \o <<".">> \o id.location)
        none == [header |-> <<>>, lines |-> <<>>]
    IN IF id.exc # "none"
       THEN UnitResult(id.exc, id, FALSE, "none", <<>>, none, 0)
       ELSE IF waveform.exc # "none"
       THEN UnitResult(waveform.exc, id, TRUE, "none", <<>>, none, 0)
       ELSE IF classify_raises
       THEN UnitResult("RuntimeError", id, TRUE, "raised", <<>>, none, waveform.warnings)
       ELSE UnitResult("none", id, TRUE, "returned", PickFilename(date_station),
                       export_picks(Classify(trace_id, waveform.traces, window)),
                       waveform.warnings)

(***************************************************************************)
(* picking.py: the result aggregator                                       *)
(***************************************************************************)
\* glob.glob(os.path.join(output_pathname, "*.pick")): "*" matches no leading dot
Glob(dir) == {name \in DOMAIN dir : /\ Len(name) >= 2
                                     /\ name[Len(name)] = "pick"
                                     /\ name[Len(name) - 1] = "."
                                     /\ name[1] # "."}

\* pathlib.Path(filename).stem.split("_")[0]
TraceIdOf(filename) == Split(Stem(filename), "_")[1]

\* The dict picks, in insertion order: a sequence of [trace_id, data].
Keys(picks) == {picks[i].trace_id : i \in 1..Len(picks)}

\* ReadPickFile with "=" for "+=": the lists of a trace_id are those of the
\* file read last.
ReadPickFileAssigns(picks, filename, file) ==
    LET trace_id == Split(Stem(filename), "_")[1]
        others == SelectSeq(picks, LAMBDA g : g.trace_id # trace_id)
        pickfile == read_csv(file)
    IN Append(others, [trace_id |-> trace_id,
                       data |-> [c \in Range(PickColumns) |-> pickfile.data[c]]])

\* One pass of the loop over pick_files, up to os.remove: picks with the
\* columns of the file appended to the lists of its trace_id.
ReadPickFile(picks, filename, file) ==
    LET trace_id == TraceIdOf(filename)
        updated == IF trace_id \in Keys(picks) THEN picks
                   ELSE Append(picks, [trace_id |-> trace_id, data |-> EmptyPicks])
        pickfile == read_csv(file)
        kept == {key \in Range(pickfile.columns) : ~HasUnnamed(key)}
    IN [i \in 1..Len(updated) |->
           IF updated[i].trace_id = trace_id
           THEN [trace_id |-> trace_id,
                 data |-> [c \in Range(PickColumns) |->
                              IF c \in kept THEN updated[i].data[c] \o pickfile.data[c]
                              ELSE updated[i].data[c]]]
           ELSE updated[i]]

\* all_picks[key] += picks[trace_id][key], for every trace_id in the order of the dict
RECURSIVE AllPicks(_)
AllPicks(picks) ==
    IF picks = <<>> THEN EmptyPicks
    ELSE LET rest == AllPicks(Tail(picks))
         IN [c \in Range(PickColumns) |-> Head(picks).data[c] \o rest[c]]

\* The files the save step writes: name -> csv file.
SavedFiles(picks, station_wise) ==
    IF station_wise
    THEN [name \in {picks[i].trace_id \o <<".", "csv">> : i \in 1..Len(picks)} |->
             LET i == CHOOSE i \in 1..Len(picks) : picks[i].trace_id \o <<".", "csv">> = name
             IN to_csv(DataFrame(PickColumns, picks[i].data))]
    ELSE [name \in {<<"picks", ".", "csv">>} |-> to_csv(DataFrame(PickColumns, AllPicks(picks)))]

\* dir with the files of new written over it
Write(dir, new) == [name \in DOMAIN dir \cup DOMAIN new |->
                       IF name \in DOMAIN new THEN new[name] ELSE dir[name]]

\* os.remove
Remove(dir, name) == [n \in DOMAIN dir \ {name} |-> dir[n]]

(***************************************************************************)
(* The state                                                               *)
(***************************************************************************)
VARIABLES
    parameters,     \* main: the parameter set of the run
    pc,             \* main: where the run is ("raised", "pool_raised": it has raised exc)
    exc,            \* the exception that ended the run, "none" if none
    dir,            \* the output directory: file name -> csv file
    dates_station,  \* pick_waveforms: the work units
    unit,           \* the pool: per work unit "todo", "running", "done", "raised"
    picker,         \* pick_waveforms: the loaded picker
    ppc,            \* picks_postprocessing: "idle", "loop", "returned", "raised"
    mode,           \* picks_postprocessing: station_wise of the call
    pick_files,     \* picks_postprocessing: the files of the glob not yet read
    picks,          \* picks_postprocessing: the dict picks
    dir0,           \* the output directory as the running call found it
    calls,          \* the number of calls of picks_postprocessing so far
    loads,          \* pick_waveforms: the number of calls of get_picker so far
    worker,         \* the pool: per work unit what its call of _pick_waveform did
    resolver,       \* one call of get_waveforms
    window,         \* one call of start_and_endtime
    enumerator,     \* one pass of date_list, station_and_dates, start_and_endtime
    task            \* one call of _pick_waveform

vars == <<parameters, pc, exc, dir, dates_station, unit, picker, ppc, mode,
          pick_files, picks, dir0, calls, loads, worker, resolver, window, enumerator, task>>

runVars == <<parameters, pc, exc, dir, dates_station, unit, picker, ppc, mode,
             pick_files, picks, dir0, calls, loads, worker>>

EmptyDir == [name \in {} |-> <<>>]
NoFile == [header |-> <<>>, lines |-> <<>>]

(***************************************************************************)
(* The inputs of a run                                                     *)
(***************************************************************************)
\* The rows (id, channel_code) of a station list.
StationRows ==
    { <<<<"GR", ".", "BFO">>, "HH">>,
      <<<<"GR", ".", "BFO">>, "BH">>,
      <<<<"BW", ".", "FUR", ".", "00">>, "HH">>,
      <<<<"GR", ".", "B", "_", "1">>, "HH">>,
      <<<<"BFO">>, "HH">> }

StationTables == UNION {[1..n -> StationRows] : n \in 1..MaxStations}

PickerTypes == {"PhaseNet", "gpd", "unknown"}

RunTimes == 0..(RunTicks - 1)

ParameterSets ==
    { p \in [starttime : RunTimes, endtime : RunTimes, sds_path : BOOLEAN,
             stations_file : BOOLEAN, stations : StationTables, picker : PickerTypes,
             station_wise : BOOLEAN, workers : 1..2] :
        \* at most MaxUnits work units
        /\ Len(date_list(p.starttime, p.endtime)) * Len(p.stations) <= MaxUnits
        \* one defect of the configuration at a time
        /\ Cardinality({d \in {"time", "sds", "stations", "picker"} :
               \/ d = "time" /\ p.starttime >= p.endtime
               \/ d = "sds" /\ ~p.sds_path
               \/ d = "stations" /\ ~p.stations_file
               \/ d = "picker" /\ p.picker = "unknown"}) <= 1 }

RunIdle ==
    /\ parameters = [starttime |-> 0, endtime |-> 0, sds_path |-> TRUE, stations_file |-> TRUE,
                     stations |-> <<>>, picker |-> "none", station_wise |-> FALSE, workers |-> 1]
    /\ pc = "off"
    /\ exc = "none"
    /\ dir = EmptyDir
    /\ dates_station = <<>>
    /\ unit = <<>>
    /\ picker = "none"
    /\ ppc = "idle"
    /\ mode = FALSE
    /\ pick_files = {}
    /\ picks = <<>>
    /\ dir0 = EmptyDir
    /\ calls = 0
    /\ loads = 0
    /\ worker = <<>>

ResolverIdle == resolver = [pc |-> "off"]
WindowIdle == window = [pc |-> "off"]
EnumeratorIdle == enumerator = [pc |-> "off"]
TaskIdle == task = [pc |-> "off"]

Init ==
    /\ parameters \in ParameterSets
    /\ pc = "check_parameters"
    /\ exc = "none"
    /\ dir = EmptyDir
    /\ dates_station = <<>>
    /\ unit = <<>>
    /\ picker = "none"
    /\ ppc = "idle"
    /\ mode = FALSE
    /\ pick_files = {}
    /\ picks = <<>>
    /\ dir0 = EmptyDir
    /\ calls = 0
    /\ loads = 0
    /\ worker = <<>>
    /\ ResolverIdle
    /\ WindowIdle
    /\ EnumeratorIdle
    /\ TaskIdle

(***************************************************************************)
(* main.py and utils.check_parameters                                      *)
(***************************************************************************)
\* the exception check_parameters raises, "none" if the parameters pass
check_parameters(p) ==
    IF p.starttime >= p.endtime THEN "ValueError"
    ELSE IF ~p.sds_path THEN "FileNotFoundError"
    ELSE IF ~p.stations_file THEN "FileNotFoundError"
    ELSE "none"

Abort(e) == pc' = "raised" /\ exc' = e

CheckParameters ==
    /\ pc = "check_parameters"
    /\ LET e == check_parameters(parameters)
       IN IF e # "none" THEN Abort(e) ELSE pc' = "startup" /\ exc' = exc
    /\ UNCHANGED <<parameters, dir, dates_station, unit, picker, ppc, mode, pick_files,
                   picks, dir0, calls, loads, worker, resolver, window, enumerator, task>>

\* the copies of the parameter file and of the station list
StartupCopies(p) ==
    [name \in {<<"parfile", ".", "yml">>, <<"stations", ".", "csv">>} |->
        IF name = <<"parfile", ".", "yml">> THEN NoFile
        ELSE [header |-> <<"id", "channel_code">>,
              lines |-> [i \in 1..Len(p.stations) |-> <<Join(p.stations[i][1]), p.stations[i][2]>>]]]

\* A unit whose call of _pick_waveform has not begun: no picker handed over
NoCall == [picker |-> "none", load |-> 0, fetched |-> FALSE, classified |-> "none"]

\* main, lines 36-58, and pick_waveforms up to the pool: the output directory
\* and the startup copies, the dates, the work units, the picker
Startup ==
    /\ pc = "startup"
    /\ dir' = Write(dir, StartupCopies(parameters))
    /\ LET dates == date_list(parameters.starttime, parameters.endtime)
           stations == [i \in 1..Len(parameters.stations) |-> parameters.stations[i][1]]
           channel_codes == [i \in 1..Len(parameters.stations) |-> parameters.stations[i][2]]
           loaded == get_picker(parameters.picker)
       IN /\ dates_station' = station_and_dates(dates, stations, channel_codes)
          /\ unit' = [i \in 1..Len(dates_station') |-> "todo"]
          /\ worker' = [i \in 1..Len(dates_station') |-> NoCall]
          /\ loads' = loads + 1
          /\ IF loaded.exc # "none"
             THEN Abort(loaded.exc) /\ picker' = picker
             ELSE pc' = "pool" /\ exc' = exc /\ picker' = loaded.picker
    /\ UNCHANGED <<parameters, ppc, mode, pick_files, picks, dir0, calls, resolver, window,
                   enumerator, task>>

(***************************************************************************)
(* picking.pick_waveforms: the pool (joblib.Parallel)                      *)
(***************************************************************************)
Running == {i \in 1..Len(unit) : unit[i] = "running"}

\* The pool hands out the units in the order of the list, to at most
\* parameters.workers workers at a time.  After a unit has raised, a pool of
\* several workers may still start units that were already handed over.
Dispatch(i) ==
    /\ \/ pc = "pool"
       \/ pc = "pool_raised" /\ parameters.workers > 1
    /\ i \in 1..Len(unit)
    /\ unit[i] = "todo"
    /\ \A j \in 1..(i - 1) : unit[j] # "todo"
    /\ Cardinality(Running) < parameters.workers
    /\ unit' = [unit EXCEPT ![i] = "running"]
    /\ worker' = [worker EXCEPT ![i].picker = picker, ![i].load = loads]
    /\ UNCHANGED <<parameters, pc, exc, dir, dates_station, picker, ppc, mode, pick_files,
                   picks, dir0, calls, loads, resolver, window, enumerator, task>>

\* export_picks(filename, picklist) of a unit that writes no file without picks
SaveUnitWithPicks(d, r) ==
    IF r.file.lines = <<>> THEN d ELSE Write(d, [name \in {r.name} |-> r.file])

\* export_picks(filename=filename, picklist=picks.picks): the unit's file in
\* the output directory d
SaveUnit(d, r) == Write(d, [name \in {r.name} |-> r.file])

\* _pick_waveform on a worker, for unit i
PickWaveform(i) ==
    /\ pc \in {"pool", "pool_raised"}
    /\ i \in 1..Len(unit)
    /\ unit[i] = "running"
    /\ \E classify_raises \in BOOLEAN :
         LET r == pick_waveform(dates_station[i], parameters.sds_path, parameters.starttime,
                                parameters.endtime, classify_raises)
         IN /\ worker' = [worker EXCEPT ![i].fetched = r.fetched,
                                          ![i].classified = r.classified]
            /\ IF r.exc # "none"
               THEN /\ unit' = [unit EXCEPT ![i] = "raised"]
                    /\ pc' = "pool_raised"
                    /\ exc' = IF pc = "pool_raised" THEN exc ELSE r.exc
                    /\ dir' = dir
               ELSE /\ unit' = [unit EXCEPT ![i] = "done"]
                    /\ dir' = SaveUnit(dir, r)
                    /\ UNCHANGED <<pc, exc>>
    /\ UNCHANGED <<parameters, dates_station, picker, ppc, mode, pick_files,
                   picks, dir0, calls, loads, resolver, window, enumerator, task>>

\* PoolFinished for a pool that returns once every unit is handed to a worker
PoolAllDispatched == \A i \in 1..Len(unit) : unit[i] # "todo"

\* joblib_pool(...) blocks until every unit has returned
PoolFinished == \A i \in 1..Len(unit) : unit[i] = "done"

PoolReturns ==
    /\ pc = "pool"
    /\ PoolFinished
    /\ pc' = "picks_postprocessing"
    /\ mode' = parameters.station_wise
    /\ UNCHANGED <<parameters, exc, dir, dates_station, unit, picker, ppc, pick_files,
                   picks, dir0, calls, loads, worker, resolver, window, enumerator, task>>

(***************************************************************************)
(* picking.picks_postprocessing                                            *)
(***************************************************************************)
\* pick_files = glob.glob(...); picks = {}
PostGlob ==
    /\ pc = "picks_postprocessing"
    /\ ppc = "idle"
    /\ ppc' = "loop"
    /\ pick_files' = Glob(dir)
    /\ picks' = <<>>
    /\ dir0' = dir
    /\ calls' = calls + 1
    /\ UNCHANGED <<parameters, pc, exc, dir, dates_station, unit, picker, mode, loads, worker, resolver, window, enumerator, task>>

\* One pass of the loop, for the next file of the glob (which lists the files
\* in no particular order): read, append, remove.
PostRead(filename) ==
    /\ pc = "picks_postprocessing"
    /\ ppc = "loop"
    /\ filename \in pick_files
    /\ picks' = ReadPickFile(picks, filename, dir[filename])
    /\ dir' = Remove(dir, filename)
    /\ pick_files' = pick_files \ {filename}
    /\ UNCHANGED <<parameters, pc, exc, dates_station, unit, picker, ppc, mode, dir0, calls,
                   loads, worker, resolver, window, enumerator, task>>

\* pd.read_csv raises for the next file (an unreadable file)
PostReadRaises(filename) ==
    /\ pc = "picks_postprocessing"
    /\ ppc = "loop"
    /\ filename \in pick_files
    /\ ppc' = "raised"
    /\ Abort("OSError")
    /\ UNCHANGED <<parameters, dir, dates_station, unit, picker, mode, pick_files, picks, dir0,
                   calls, loads, worker, resolver, window, enumerator, task>>

\* The save step: the files of the mode are written, and the call returns
\* (its dict picks is gone).
PostSave ==
    /\ pc = "picks_postprocessing"
    /\ ppc = "loop"
    /\ pick_files = {}
    /\ dir' = Write(dir, SavedFiles(picks, mode))
    /\ picks' = <<>>
    /\ ppc' = "returned"
    /\ pc' = "done"
    /\ UNCHANGED <<parameters, exc, dates_station, unit, picker, mode, pick_files, dir0,
                   calls, loads, worker, resolver, window, enumerator, task>>

\* to_csv raises in the save step (a full disk): the station files written
\* before it stay, the file it was writing is not written.
PostSaveRaises ==
    /\ pc = "picks_postprocessing"
    /\ ppc = "loop"
    /\ pick_files = {}
    /\ \E k \in 0..Len(picks) :
         /\ IF mode THEN k < Len(picks) ELSE k = 0
         /\ dir' = IF mode THEN Write(dir, SavedFiles(SubSeq(picks, 1, k), mode)) ELSE dir
    /\ ppc' = "raised"
    /\ Abort("OSError")
    /\ UNCHANGED <<parameters, dates_station, unit, picker, mode, pick_files, picks, dir0,
                   calls, loads, worker, resolver, window, enumerator, task>>

\* picks_postprocessing is called once more on the output directory of a run
\* that has ended.
CallAgain ==
    /\ pc = "done"
    /\ calls < MaxCalls
    /\ pc' = "picks_postprocessing"
    /\ ppc' = "idle"
    /\ \E station_wise \in BOOLEAN : mode' = station_wise
    /\ UNCHANGED <<parameters, exc, dir, dates_station, unit, picker, pick_files, picks, dir0,
                   calls, loads, worker, resolver, window, enumerator, task>>

Next ==
    \/ CheckParameters
    \/ Startup
    \/ \E i \in 1..Len(unit) : Dispatch(i)
    \/ \E i \in 1..Len(unit) : PickWaveform(i)
    \/ PoolReturns
    \/ PostGlob
    \/ \E filename \in pick_files : PostRead(filename)
    \/ \E filename \in pick_files : PostReadRaises(filename)
    \/ PostSave
    \/ PostSaveRaises
    \/ CallAgain

Spec == Init /\ [][Next]_vars

(***************************************************************************)
(* One call of waveforms.get_waveforms, backend by backend                 *)
(***************************************************************************)
ResolverInit ==
    /\ RunIdle
    /\ WindowIdle
    /\ EnumeratorIdle
    /\ TaskIdle
    /\ \E sds_is_dir \in BOOLEAN, client \in BackendOutcomes, read \in BackendOutcomes :
         resolver = [pc |-> "client", sds_is_dir |-> sds_is_dir, client |-> client,
                     read |-> read, client_result |-> <<>>, read_result |-> <<>>,
                     stream |-> <<>>, fallback |-> FALSE, warnings |-> 0,
                     exc |-> "none", raised_by |-> "none"]

\* lines 192-202: the client backend
ResolveClient ==
    /\ resolver.pc = "client"
    /\ LET first == get_waveforms_client(resolver.client)
       IN resolver' =
            IF first.exc # "none"
            THEN [resolver EXCEPT !.pc = "raised", !.exc = first.exc,
                     !.raised_by = IF resolver.client.exc # "none" THEN "client query"
                                   ELSE "client merge"]
            ELSE [resolver EXCEPT !.pc = IF Fallback(first) THEN "sds_path" ELSE "warn",
                     !.client_result = first.traces, !.stream = first.traces]
    /\ UNCHANGED <<runVars, window, enumerator, task>>

\* lines 205-215: the filesystem backend
ResolveSdsPath ==
    /\ resolver.pc = "sds_path"
    /\ LET second == get_waveforms_sds_path(resolver.sds_is_dir, resolver.read)
       IN resolver' =
            IF second.exc # "none"
            THEN [resolver EXCEPT !.pc = "raised", !.exc = second.exc, !.fallback = TRUE,
                     !.raised_by = IF ~resolver.sds_is_dir THEN "sds_path missing"
                                   ELSE "file read"]
            ELSE [resolver EXCEPT !.pc = "warn", !.fallback = TRUE,
                     !.read_result = second.traces, !.stream = second.traces]
    /\ UNCHANGED <<runVars, window, enumerator, task>>

\* lines 217-225: the warning, and the return
ResolveReturn ==
    /\ resolver.pc = "warn"
    /\ resolver' = [resolver EXCEPT !.pc = "returned",
                       !.warnings = IF Len(resolver.stream) = 0 THEN @ + 1 ELSE @]
    /\ UNCHANGED <<runVars, window, enumerator, task>>

ResolverNext == ResolveClient \/ ResolveSdsPath \/ ResolveReturn

SpecResolver == ResolverInit /\ [][ResolverNext]_vars

(***************************************************************************)
(* One call of waveforms.start_and_endtime                                 *)
(***************************************************************************)
\* The instants and the dates of the first two years of the calendar.
CalendarTicks == (DaysInYear(FirstYear) + DaysInYear(FirstYear + 1)) * TicksPerDay
Instants == 0..(CalendarTicks - 1)
Dates == {<<YearOf(t), JuldayOf(t)>> : t \in Instants}

WindowInit ==
    /\ RunIdle
    /\ ResolverIdle
    /\ EnumeratorIdle
    /\ TaskIdle
    /\ \E date \in Dates, starttime \in Instants \cup {NoTime}, endtime \in Instants \cup {NoTime} :
         window = [pc |-> "call", date |-> date, starttime |-> starttime, endtime |-> endtime,
                   starttime_stream |-> NoTime, endtime_stream |-> NoTime]

StartAndEndtime ==
    /\ window.pc = "call"
    /\ LET r == start_and_endtime(window.date, window.starttime, window.endtime)
       IN window' = [window EXCEPT !.pc = "returned", !.starttime_stream = r[1],
                                   !.endtime_stream = r[2]]
    /\ UNCHANGED <<runVars, resolver, enumerator, task>>

WindowNext == StartAndEndtime

SpecWindow == WindowInit /\ [][WindowNext]_vars

(***************************************************************************)
(* Rows of pick files, for the properties                                  *)
(***************************************************************************)
PicksCsv == <<"picks", ".", "csv">>

\* Does a csv file have the six pick columns
HasPickColumns(file) == Range(PickColumns) \subseteq Range(file.header)

\* Line i of a file as the values of the six pick fields
PickRow(file, i) ==
    [c \in Range(PickColumns) |->
        file.lines[i][CHOOSE k \in 1..Len(file.header) : file.header[k] = c]]

PickRows(file) == {PickRow(file, i) : i \in 1..Len(file.lines)}

\* The final output files of a directory: the csv files of pick rows
FinalFiles(d) == {name \in DOMAIN d : /\ Len(name) >= 2
                                      /\ name[Len(name)] = "csv"
                                      /\ name[Len(name) - 1] = "."
                                      /\ HasPickColumns(d[name])}

\* How many lines of file are the row
RowCountIn(file, row) == Cardinality({i \in 1..Len(file.lines) : PickRow(file, i) = row})

\* How many lines of the files names of directory d are the row
RECURSIVE RowCount(_, _, _)
RowCount(d, names, row) ==
    IF names = {} THEN 0
    ELSE LET name == CHOOSE name \in names : TRUE
         IN RowCountIn(d[name], row) + RowCount(d, names \ {name}, row)

RECURSIVE LineCount(_, _)
LineCount(d, names) ==
    IF names = {} THEN 0
    ELSE LET name == CHOOSE name \in names : TRUE
         IN Len(d[name].lines) + LineCount(d, names \ {name})

AllPickRows(d, names) == UNION {PickRows(d[name]) : name \in names}

(***************************************************************************)
(* C1.  After picks_postprocessing has returned from a call in combined    *)
(* mode, picks.csv has as many rows as all the *.pick files the call found *)
(* together, every row of those files is in picks.csv as often as it was   *)
(* in those files, with its six field values, picks.csv has no other row,  *)
(* and no *.pick file is left.                                             *)
(***************************************************************************)
C1_AggregationConservesRows ==
    (ppc = "returned" /\ ~mode) =>
        /\ PicksCsv \in DOMAIN dir
        /\ HasPickColumns(dir[PicksCsv])
        /\ Len(dir[PicksCsv].lines) = LineCount(dir0, Glob(dir0))
        /\ \A row \in AllPickRows(dir0, Glob(dir0)) \cup PickRows(dir[PicksCsv]) :
              RowCount(dir, {PicksCsv}, row) = RowCount(dir0, Glob(dir0), row)
        /\ Glob(dir) = {}

\* Two files of one station, each with rows, and a file of another station were aggregated.
C1_Witness ==
    /\ ppc = "returned" /\ ~mode /\ calls = 1
    /\ \E f, g, h \in Glob(dir0) :
          /\ f # g /\ TraceIdOf(f) = TraceIdOf(g) /\ TraceIdOf(h) # TraceIdOf(f)
          /\ Len(dir0[f].lines) >= 1 /\ Len(dir0[g].lines) >= 1 /\ Len(dir0[h].lines) >= 1

(***************************************************************************)
(* C2.  A second call of picks_postprocessing, on an output directory the  *)
(* first call has aggregated (no *.pick file is left), returns with the    *)
(* directory as it found it: no file created, no file changed.             *)
(***************************************************************************)
C2_RerunIsNoOp ==
    (calls = 2 /\ ppc = "returned" /\ Glob(dir0) = {}) => dir = dir0

(***************************************************************************)
(* C3.  In every state during and after picks_postprocessing, every pick   *)
(* row that was in a *.pick file when the call started is on disk, in a    *)
(* *.pick file or in a final output file, as often as it was.              *)
(***************************************************************************)
C3_NoDataLoss ==
    (calls >= 1) =>
        \A row \in AllPickRows(dir0, Glob(dir0)) :
            RowCount(dir, Glob(dir) \cup FinalFiles(dir), row) >= RowCount(dir0, Glob(dir0), row)

(***************************************************************************)
(* C4.  No two distinct work units of station_and_dates write to the same  *)
(* intermediate file name.                                                 *)
(***************************************************************************)
C4_UniqueFilenames ==
    \A i, j \in 1..Len(dates_station) :
        dates_station[i] # dates_station[j]
            => PickFilename(dates_station[i]) # PickFilename(dates_station[j])

(***************************************************************************)
(* C5.  When every unit has completed, the intermediate files in the       *)
(* output directory and their rows are those of the run that does the      *)
(* units one after the other in the order of the list, whatever the number *)
(* of workers and the order in which the units completed.                  *)
(***************************************************************************)
RECURSIVE InListOrder(_, _)
InListOrder(units, d) ==
    IF units = <<>> THEN d
    ELSE LET r == pick_waveform(Head(units), parameters.sds_path, parameters.starttime,
                                parameters.endtime, FALSE)
         IN InListOrder(Tail(units), Write(d, [name \in {r.name} |-> r.file]))

C5_OrderIndependent ==
    (pc = "picks_postprocessing" /\ calls = 0) =>
        LET expected == InListOrder(dates_station, EmptyDir)
        IN /\ Glob(dir) = DOMAIN expected
           /\ \A name \in Glob(dir) : dir[name] = expected[name]

(***************************************************************************)
(* C6.  Once picks_postprocessing has started, every work unit has         *)
(* returned and written its intermediate file before the scan of the       *)
(* directory, and no unit is running or still to run.                      *)
(***************************************************************************)
C6_AggregationBehindBarrier ==
    (ppc # "idle" \/ calls >= 1 \/ pc = "picks_postprocessing") =>
        /\ \A i \in 1..Len(unit) : unit[i] = "done"
        /\ calls = 1 => \A i \in 1..Len(unit) : PickFilename(dates_station[i]) \in Glob(dir0)

\* The aggregator scans the files of a run of two workers and several units.
C6_Witness ==
    /\ ppc = "loop" /\ calls = 1 /\ parameters.workers = 2
    /\ Len(unit) >= 3
    /\ Cardinality(pick_files) >= 2

(***************************************************************************)
(* C7.  With the archive root in place, get_waveforms does not raise what  *)
(* the client query or the file read raises: it returns a stream.          *)
(***************************************************************************)
C7_BackendFailureAbsorbed ==
    (resolver.pc = "raised" /\ resolver.sds_is_dir)
        => resolver.raised_by \notin {"client query", "file read"}

(***************************************************************************)
(* C8.  When get_waveforms returns: a client result of at least one trace  *)
(* is the stream returned and the filesystem backend was not consulted; on *)
(* a client result of no trace the stream returned is the result of the    *)
(* filesystem backend; one warning is emitted if both results have no      *)
(* trace (and the stream returned is empty), none otherwise.               *)
(***************************************************************************)
C8_FetchWithFallback ==
    resolver.pc = "returned" =>
        /\ resolver.client.exc = "none" /\ resolver.client.traces # <<>>
              => Len(resolver.client_result) >= 1
        /\ Len(resolver.client_result) >= 1
              => resolver.stream = resolver.client_result /\ ~resolver.fallback
        /\ Len(resolver.client_result) = 0
              => resolver.fallback /\ resolver.stream = resolver.read_result
        /\ resolver.warnings \in {0, 1}
        /\ resolver.warnings = 1
              <=> Len(resolver.client_result) = 0 /\ Len(resolver.read_result) = 0
        /\ resolver.warnings = 1 => resolver.stream = <<>>

\* The client had nothing, the stream returned came from the filesystem backend.
C8_Witness ==
    /\ resolver.pc = "returned"
    /\ resolver.client_result = <<>>
    /\ resolver.fallback
    /\ Len(resolver.stream) >= 1
    /\ resolver.warnings = 0

(***************************************************************************)
(* C9.  The window start_and_endtime returns for a date starts at the      *)
(* global starttime if that is on the date and at the midnight of the date *)
(* otherwise, ends at the global endtime if that is on the date and one    *)
(* microsecond before the next midnight otherwise, and both its ends are   *)
(* instants of the date.                                                   *)
(***************************************************************************)
OnDate(t, date) == t # NoTime /\ YearOf(t) = date[1] /\ JuldayOf(t) = date[2]

\* the first and the last instant of a date, by the calendar
DayStart(date) == CHOOSE t \in Instants : OnDate(t, date) /\ ~OnDate(t - 1, date)
DayEnd(date) == CHOOSE t \in Instants : OnDate(t, date) /\ ~OnDate(t + 1, date)

C9_DayWindow ==
    window.pc = "returned" =>
        /\ window.starttime_stream =
              IF OnDate(window.starttime, window.date) THEN window.starttime
              ELSE DayStart(window.date)
        /\ window.endtime_stream =
              IF OnDate(window.endtime, window.date) THEN window.endtime
              ELSE DayEnd(window.date)
        /\ DayStart(window.date) <= window.starttime_stream
        /\ window.starttime_stream <= DayEnd(window.date)
        /\ DayStart(window.date) <= window.endtime_stream
        /\ window.endtime_stream <= DayEnd(window.date)
        /\ OnDate(window.starttime_stream, window.date)
        /\ OnDate(window.endtime_stream, window.date)

\* The last day of a year, with the starttime in the day and the endtime in the next year.
C9_Witness ==
    /\ window.pc = "returned"
    /\ window.date = <<FirstYear, DaysInYear(FirstYear)>>
    /\ OnDate(window.starttime, window.date)
    /\ window.starttime > DayStart(window.date)
    /\ window.endtime # NoTime /\ YearOf(window.endtime) = FirstYear + 1
    /\ window.endtime_stream = DayEnd(window.date)

(***************************************************************************)
(* C10.  A run that a fatal configuration error has ended (a bad time      *)
(* range, a missing archive root, a missing station file, an unrecognized  *)
(* picker type, a malformed station identifier) leaves no *.pick file and  *)
(* no final pick file in the output directory.                             *)
(***************************************************************************)
FatalConfigurationError ==
    /\ pc \in {"raised", "pool_raised"}
    /\ \/ check_parameters(parameters) # "none"
       \/ get_picker(parameters.picker).exc # "none"
       \/ \E i \in 1..Len(unit) :
             unit[i] = "raised" /\ ParseStationId(dates_station[i][3]).exc # "none"

C10_FatalErrorLeavesNoPicks ==
    FatalConfigurationError => Glob(dir) = {} /\ FinalFiles(dir) = {}

(***************************************************************************)
(* One pass of the calendar/task enumerator: main's date_list, the          *)
(* station_and_dates of pick_waveforms, and the start_and_endtime of the    *)
(* days of the list                                                         *)
(***************************************************************************)
EnumeratorInit ==
    /\ RunIdle
    /\ ResolverIdle
    /\ WindowIdle
    /\ TaskIdle
    /\ \E starttime \in Instants, endtime \in Instants :
         enumerator = [pc |-> "date_list", starttime |-> starttime, endtime |-> endtime,
                       stations |-> <<>>, dates |-> <<>>, dates_stations |-> <<>>,
                       windows |-> <<>>]

\* main.py:55-58
DateList ==
    /\ enumerator.pc = "date_list"
    /\ enumerator' = [enumerator EXCEPT
                         !.pc = "station_and_dates",
                         !.dates = date_list(enumerator.starttime, enumerator.endtime)]
    /\ UNCHANGED <<runVars, resolver, window, task>>

\* picking.py:209-213, on the columns of a stations table
StationAndDates ==
    /\ enumerator.pc = "station_and_dates"
    /\ \E table \in StationTables :
         LET stations == [i \in 1..Len(table) |-> table[i][1]]
             channel_codes == [i \in 1..Len(table) |-> table[i][2]]
         IN enumerator' = [enumerator EXCEPT
                              !.pc = "start_and_endtime",
                              !.stations = table,
                              !.dates_stations =
                                  station_and_dates(enumerator.dates, stations, channel_codes)]
    /\ UNCHANGED <<runVars, resolver, window, task>>

\* waveforms.py:76-78, 148-150: the window of each day of the list
DayWindows ==
    /\ enumerator.pc = "start_and_endtime"
    /\ enumerator' = [enumerator EXCEPT
                         !.pc = "returned",
                         !.windows = [i \in 1..Len(enumerator.dates) |->
                                        start_and_endtime(enumerator.dates[i],
                                                          enumerator.starttime,
                                                          enumerator.endtime)]]
    /\ UNCHANGED <<runVars, resolver, window, task>>

EnumeratorNext == DateList \/ StationAndDates \/ DayWindows

SpecEnumerator == EnumeratorInit /\ [][EnumeratorNext]_vars

(***************************************************************************)
(* One call of _pick_waveform, on an output directory of its own           *)
(***************************************************************************)
\* station ids of one to four parts, with and without empty parts
TaskIds ==
    { <<>>,
      <<"BFO">>,
      <<"GR", ".", "BFO">>,
      <<"GR", ".", "BFO", ".">>,
      <<"BW", ".", "FUR", ".", "00">>,
      <<"BW", ".", "FUR", ".", "00", ".", "HHZ">> }

TaskInit ==
    /\ RunIdle
    /\ ResolverIdle
    /\ WindowIdle
    /\ EnumeratorIdle
    /\ \E id \in TaskIds, date \in Dates, channel_code \in {"HH", "BH"}, sds_is_dir \in BOOLEAN,
          starttime \in RunTimes, endtime \in RunTimes :
         /\ starttime < endtime
         /\ task = [pc |-> "call", date_station |-> <<date[1], date[2], id, channel_code>>,
                    sds_is_dir |-> sds_is_dir, starttime |-> starttime, endtime |-> endtime,
                    result |-> <<>>, dir |-> EmptyDir]

\* picking.py:136-163
PickWaveformCall ==
    /\ task.pc = "call"
    /\ \E classify_raises \in BOOLEAN :
         LET r == pick_waveform(task.date_station, task.sds_is_dir, task.starttime,
                                task.endtime, classify_raises)
         IN task' = [task EXCEPT
                        !.pc = IF r.exc # "none" THEN "raised" ELSE "returned",
                        !.result = r,
                        !.dir = IF r.exc # "none" THEN task.dir ELSE SaveUnit(task.dir, r)]
    /\ UNCHANGED <<runVars, resolver, window, enumerator>>

TaskNext == PickWaveformCall

SpecTask == TaskInit /\ [][TaskNext]_vars

(***************************************************************************)
(* C11.  For a station list without a repeated id: after the call of       *)
(* picks_postprocessing with station_wise=True has returned, the final     *)
(* files are the files {station_id}.csv of the station ids of the work     *)
(* units, and the rows of each are the rows of the intermediate files that *)
(* the units of that station wrote, each as often as it was written.       *)
(***************************************************************************)
StationCsv(station_id) == station_id \o <<".", "csv">>

NoRepeatedId ==
    \A i, j \in 1..Len(parameters.stations) :
        parameters.stations[i][1] = parameters.stations[j][1] => i = j

C11_PerStationPartition ==
    (ppc = "returned" /\ mode /\ calls = 1 /\ NoRepeatedId) =>
        /\ FinalFiles(dir) = {StationCsv(dates_station[i][3]) : i \in 1..Len(dates_station)}
        /\ \A i \in 1..Len(dates_station) :
              LET written == {PickFilename(dates_station[j]) :
                                 j \in {k \in 1..Len(dates_station) :
                                           dates_station[k][3] = dates_station[i][3]}}
                  final == {StationCsv(dates_station[i][3])}
              IN \A row \in AllPickRows(dir0, written) \cup AllPickRows(dir, final) :
                    RowCount(dir, final, row) = RowCount(dir0, written, row)

(***************************************************************************)
(* C12.  For start <= end, whatever the times of day, date_list(start,     *)
(* end) has at least one entry, its first entry is the (year, day of year) *)
(* of the day of start, its last entry that of the day of end, each entry  *)
(* is the calendar day after the one before it (the first day of the next  *)
(* year after the last day of a year), and a range within one day yields   *)
(* one entry.                                                              *)
(***************************************************************************)
NextDay(date) ==
    IF date[2] < DaysInYear(date[1]) THEN <<date[1], date[2] + 1>> ELSE <<date[1] + 1, 1>>

C12_DateEnumeration ==
    (enumerator.pc \in {"station_and_dates", "start_and_endtime", "returned"}
        /\ enumerator.starttime <= enumerator.endtime) =>
        LET dates == enumerator.dates
            first == <<YearOf(enumerator.starttime), JuldayOf(enumerator.starttime)>>
            last == <<YearOf(enumerator.endtime), JuldayOf(enumerator.endtime)>>
        IN /\ Len(dates) >= 1
           /\ dates[1] = first
           /\ dates[Len(dates)] = last
           /\ \A i \in 1..(Len(dates) - 1) : dates[i + 1] = NextDay(dates[i])
           /\ first = last => Len(dates) = 1

\* a range that begins late on the last day of a year and ends early in the next year
C12_Witness ==
    /\ enumerator.pc = "station_and_dates"
    /\ YearOf(enumerator.starttime) < YearOf(enumerator.endtime)
    /\ enumerator.starttime % TicksPerDay > enumerator.endtime % TicksPerDay
    /\ Len(enumerator.dates) = 2

(***************************************************************************)
(* C13.  station_and_dates returns len(dates) * len(stations) units in     *)
(* date-major, station-minor order: the unit at (0-based) index            *)
(* d * len(stations) + s is (dates[d].year, dates[d].day, station_ids[s],  *)
(* channel_codes[s]).                                                      *)
(***************************************************************************)
C13_WorkUnits ==
    enumerator.pc \in {"start_and_endtime", "returned"} =>
        LET dates == enumerator.dates
            table == enumerator.stations
            units == enumerator.dates_stations
        IN /\ Len(units) = Len(dates) * Len(table)
           /\ \A d \in 1..Len(dates) : \A s \in 1..Len(table) :
                 units[(d - 1) * Len(table) + s]
                    = <<dates[d][1], dates[d][2], table[s][1], table[s][2]>>

\* several days and several stations
C13_Witness ==
    /\ enumerator.pc = "start_and_endtime"
    /\ Len(enumerator.dates) >= 2
    /\ Len(enumerator.stations) >= 2
    /\ enumerator.stations[1] # enumerator.stations[2]
    /\ Len(enumerator.dates_stations) >= 4

(***************************************************************************)
(* C19.  For starttime < endtime, the windows that start_and_endtime gives *)
(* for the dates of date_list(starttime, endtime) partition the range:     *)
(* each window has start <= end, the windows of two dates are disjoint,    *)
(* and the instants of all windows are exactly the instants from starttime *)
(* to endtime.                                                             *)
(***************************************************************************)
WindowInstants(w) == w[1]..w[2]

C19_WindowsPartitionRange ==
    (enumerator.pc = "returned" /\ enumerator.starttime < enumerator.endtime) =>
        LET windows == enumerator.windows
        IN /\ \A i \in 1..Len(windows) : windows[i][1] <= windows[i][2]
           /\ \A i, j \in 1..Len(windows) :
                 i # j => WindowInstants(windows[i]) \cap WindowInstants(windows[j]) = {}
           /\ UNION {WindowInstants(windows[i]) : i \in 1..Len(windows)}
                 = enumerator.starttime..enumerator.endtime

\* a range over three days that begins and ends within a day
C19_Witness ==
    /\ enumerator.pc = "returned"
    /\ Len(enumerator.windows) = 3
    /\ enumerator.starttime % TicksPerDay > 0
    /\ enumerator.endtime % TicksPerDay < TicksPerDay - 1
    /\ enumerator.windows[2] # enumerator.windows[1]

(***************************************************************************)
(* C14.  In a run, get_picker is called at most once, and once before any  *)
(* work unit starts; every unit that has started was handed the picker of  *)
(* that one call; and with a picker type that get_picker does not know the *)
(* run has raised ValueError with no unit dispatched and no intermediate   *)
(* file written.                                                           *)
(***************************************************************************)
Started == {i \in 1..Len(unit) : unit[i] # "todo"}

C14_PickerLoadedOnceBeforePool ==
    /\ loads <= 1
    /\ pc \in {"pool", "pool_raised", "picks_postprocessing", "done"} => loads = 1
    /\ \A i \in Started :
          /\ loads = 1
          /\ worker[i].load = 1
          /\ worker[i].picker = picker
          /\ picker \in {"PhaseNet", "EQTransformer", "GPD"}
    /\ (parameters.picker = "unknown" /\ loads >= 1) =>
          /\ pc = "raised"
          /\ exc = "ValueError"
          /\ Started = {}
          /\ Glob(dir) = {}

\* two workers run a unit each with the picker of the one call
C14_Witness ==
    /\ loads = 1
    /\ \E i, j \in Started :
          /\ i # j
          /\ unit[i] = "running"
          /\ unit[j] = "running"
          /\ worker[i].picker = "GPD"
          /\ worker[j].picker = "GPD"

(***************************************************************************)
(* C15.  After a call of picks_postprocessing has returned, the columns of *)
(* every final output file (picks.csv or {station_id}.csv) are exactly the *)
(* six pick fields id, start_time, peak_time, end_time, peak_value, phase: *)
(* no index-like or other extra column.                                    *)
(***************************************************************************)
C15_FinalOutputSchema ==
    ppc = "returned" =>
        \A name \in FinalFiles(dir) : dir[name].header = PickColumns

(***************************************************************************)
(* C16.  If picker.classify raises for a work unit, the unit ends raised   *)
(* and writes no intermediate file (a file of its name is that of another  *)
(* unit with the same name), the run has raised an exception (that of      *)
(* classify if no other unit raised), picks_postprocessing is never        *)
(* called, and the directory holds no final output.                        *)
(***************************************************************************)
ClassifyRaised(i) == worker[i].classified = "raised"

C16_ClassifyFailureAborts ==
    \A i \in 1..Len(unit) :
        ClassifyRaised(i) =>
            /\ unit[i] = "raised"
            /\ PickFilename(dates_station[i]) \in DOMAIN dir =>
                  \E j \in 1..Len(unit) :
                      /\ j # i
                      /\ unit[j] = "done"
                      /\ PickFilename(dates_station[j]) = PickFilename(dates_station[i])
            /\ pc = "pool_raised"
            /\ exc # "none"
            /\ (\A j \in 1..Len(unit) : unit[j] = "raised" => j = i) => exc = "RuntimeError"
            /\ ppc = "idle"
            /\ calls = 0
            /\ FinalFiles(dir) = {}

\* classify raises for the second unit after the first has written its file
C16_Witness ==
    /\ Len(unit) >= 2
    /\ unit[1] = "done"
    /\ PickFilename(dates_station[1]) \in DOMAIN dir
    /\ ClassifyRaised(2)
    /\ PickFilename(dates_station[2]) \notin DOMAIN dir
    /\ exc = "RuntimeError"

(***************************************************************************)
(* C17.  When the pool has returned (every unit done), picker.classify was *)
(* called and returned for every unit, also for the units for which both   *)
(* backends gave no trace; the intermediate files are the files of the     *)
(* units, one per distinct (station_id, year, day_of_year), and the file   *)
(* of a name whose units all had no data is header-only.  After the call   *)
(* of picks_postprocessing that follows, every row of the final output is  *)
(* a row of a unit that had data.                                          *)
(***************************************************************************)
\* the stream get_waveforms gives unit i
UnitWaveform(i) ==
    LET u == dates_station[i]
    IN get_waveforms(parameters.sds_path, ArchiveClient(u[4], <<u[1], u[2]>>),
                     ArchiveRead(u[4], <<u[1], u[2]>>))

NoData(i) == UnitWaveform(i).exc = "none" /\ UnitWaveform(i).traces = <<>>

\* the rows unit i writes when classify returns
UnitRows(i) ==
    PickRows(pick_waveform(dates_station[i], parameters.sds_path, parameters.starttime,
                           parameters.endtime, FALSE).file)

C17_NoDataStillYieldsFile ==
    /\ (pc = "picks_postprocessing" /\ ppc = "idle" /\ calls = 0) =>
          /\ \A i \in 1..Len(unit) : worker[i].fetched /\ worker[i].classified = "returned"
          /\ Glob(dir) = {PickFilename(dates_station[i]) : i \in 1..Len(unit)}
          /\ Cardinality(Glob(dir))
                = Cardinality({<<dates_station[i][3], dates_station[i][1], dates_station[i][2]>> :
                                  i \in 1..Len(unit)})
          /\ \A i \in 1..Len(unit) :
                (\A j \in 1..Len(unit) :
                    PickFilename(dates_station[j]) = PickFilename(dates_station[i]) => NoData(j))
                => /\ dir[PickFilename(dates_station[i])].header = <<"">> \o PickColumns
                   /\ dir[PickFilename(dates_station[i])].lines = <<>>
    /\ (ppc = "returned" /\ calls = 1) =>
          \A row \in AllPickRows(dir, FinalFiles(dir)) :
              \E i \in 1..Len(unit) : ~NoData(i) /\ row \in UnitRows(i)

\* a station with data on the first day and none on the second
C17_Witness ==
    /\ pc = "picks_postprocessing"
    /\ ppc = "idle"
    /\ calls = 0
    /\ Len(unit) = 2
    /\ dates_station[1][3] = dates_station[2][3]
    /\ ~NoData(1)
    /\ NoData(2)
    /\ dir[PickFilename(dates_station[1])].lines # <<>>
    /\ dir[PickFilename(dates_station[2])].lines = <<>>

(***************************************************************************)
(* C18.  After a call of _pick_waveform: for an id of exactly three        *)
(* dot-separated parts, network, station and location are the three       *)
(* parts; for exactly two parts, network and station are the parts and     *)
(* location is the empty string; for any other number of parts the call    *)
(* has raised ValueError without calling get_waveforms or picker.classify  *)
(* and without writing a file.                                             *)
(***************************************************************************)
Dots(s) == Cardinality({k \in 1..Len(s) : s[k] = "."})

C18_StationIdParsing ==
    task.pc \in {"returned", "raised"} =>
        LET id == task.date_station[3]
            r == task.result
            dotless == Dots(r.network) = 0 /\ Dots(r.station) = 0 /\ Dots(r.location) = 0
        IN /\ Dots(id) = 2 =>
                /\ r.network \o <<".">> \o r.station \o <<".">> \o r.location = id
                /\ dotless
                /\ r.fetched
           /\ Dots(id) = 1 =>
                /\ r.network \o <<".">> \o r.station = id
                /\ r.location = <<>>
                /\ dotless
                /\ r.fetched
           /\ Dots(id) \notin {1, 2} =>
                /\ task.pc = "raised"
                /\ r.exc = "ValueError"
                /\ ~r.fetched
                /\ r.classified = "none"
                /\ task.dir = EmptyDir

\* an id of four parts
C18_Witness ==
    /\ task.pc = "raised"
    /\ Dots(task.date_station[3]) = 3
    /\ task.result.exc = "ValueError"
    /\ ~task.result.fetched

====
